---- MODULE Spec2Model ----
(***************************************************************************)
(* Model of the cross-source event reconciliation engine of                *)
(* merge_streams.py: normalize_team_name, extract_teams, teams_match and   *)
(* merge_events, and of fetch_iframe_with_retry of m3u8_extractor.py.      *)
(*                                                                         *)
(* A Python str is a sequence of characters; a character is a TLA+ string. *)
(* The three characters outside ASCII that the code names are written      *)
(*   "u:"  for U+00FC (u with diaeresis),   "U:"  for U+00DC,              *)
(*   "I."  for U+0130 (capital I with dot above),                          *)
(*   "^."  for U+0307 (combining dot above).                               *)
(* A float score is the exact rational [n |-> numerator, d |-> denom].     *)
(***************************************************************************)
EXTENDS Integers, Sequences, FiniteSets, TLC

VARIABLES
    \* --- text functions (normalize_team_name, extract_teams) ---
    text,          \* the argument string
    name1,         \* normalize_team_name(text)
    name2,         \* normalize_team_name(name1)
    teams,         \* extract_teams(text)
    tpc,           \* position of the text run
    \* --- teams_match ---
    title1,        \* first argument
    title2,        \* second argument
    result,        \* teams_match(title1, title2)
    mpc,           \* position of the teams_match run
    \* --- merge_events ---
    streambtw_events,     \* argument list A
    ptv_events,           \* argument list B
    merged,               \* local list merged
    unmatched_streambtw,  \* local list unmatched_streambtw
    unmatched_ptv,        \* local list unmatched_ptv (the pool)
    paired,               \* per merged event, the identities of its A and B record
    ai,                   \* number of A records the outer loop has processed
    pc,                   \* position of the merge_events run
    run,                  \* number of calls of merge_events so far
    returned,             \* what the last call returned
    previous,             \* what the call before the last returned
    pairings,             \* paired as it stood at each return so far
    \* --- fetch_iframe_with_retry and its RateLimitHandler ---
    max_retries,          \* rate_handler.max_retries
    request_count,        \* rate_handler.request_count
    success_count,        \* rate_handler.success_count
    failure_count,        \* rate_handler.failure_count
    attempt,              \* the loop variable attempt
    fpc,                  \* position of the fetch run
    fresult,              \* what the last call returned
    seen,                 \* what requests.get did at each attempt of this call
    waits,                \* number of rate_handler.wait calls of this call
    calls,                \* number of calls of fetch_iframe_with_retry so far
    entry                 \* the three counters as the call found them

textVars  == <<text, name1, name2, teams, tpc>>
matchVars == <<title1, title2, result, mpc>>
mergeVars == <<streambtw_events, ptv_events, merged, unmatched_streambtw,
               unmatched_ptv, paired, ai, pc, run, returned, previous,
               pairings>>
fetchVars == <<max_retries, request_count, success_count, failure_count,
               attempt, fpc, fresult, seen, waits, calls, entry>>
vars == <<textVars, matchVars, mergeVars, fetchVars>>

----------------------------------------------------------------------------
(* Python str primitives                                                   *)

Min(S) == CHOOSE x \in S : \A y \in S : x <= y

\* str.lower() of one character: an ASCII capital lowers to its small letter,
\* U+00DC to U+00FC, and U+0130 to the two characters i, U+0307
Capitals == <<"A","B","C","D","E","F","G","H","I","J","K","L","M",
              "N","O","P","Q","R","S","T","U","V","W","X","Y","Z","U:">>
Smalls   == <<"a","b","c","d","e","f","g","h","i","j","k","l","m",
              "n","o","p","q","r","s","t","u","v","w","x","y","z","u:">>

LowerOf == [c \in {Capitals[k] : k \in 1..Len(Capitals)} |->
               Smalls[CHOOSE k \in 1..Len(Capitals) : Capitals[k] = c]]

LowerChar(c) ==
    IF c = "I." THEN <<"i", "^.">>
    ELSE IF c \in DOMAIN LowerOf THEN <<LowerOf[c]>>
    ELSE <<c>>

RECURSIVE lower(_)
lower(s) == IF s = <<>> THEN <<>> ELSE LowerChar(Head(s)) \o lower(Tail(s))

\* str.isspace() of one character
IsSpace(c) == c \in {" ", "\t"}

\* s[i-1:].startswith(sub), i counted from 1
StartsWithAt(s, sub, i) ==
    /\ i + Len(sub) - 1 <= Len(s)
    /\ SubSeq(s, i, i + Len(sub) - 1) = sub

\* s.find(sub) counted from 1; 0 when sub does not occur
find(s, sub) ==
    LET occ == {i \in 1..(Len(s) - Len(sub) + 1) : StartsWithAt(s, sub, i)}
    IN  IF occ = {} THEN 0 ELSE Min(occ)

\* sub in s
contains(s, sub) == find(s, sub) # 0

\* s.replace(old, new): the non-overlapping occurrences, left to right
RECURSIVE replace(_, _, _)
replace(s, old, new) ==
    LET i == find(s, old)
    IN  IF i = 0 THEN s
        ELSE SubSeq(s, 1, i - 1) \o new
             \o replace(SubSeq(s, i + Len(old), Len(s)), old, new)

\* s.split(sep) with a non-empty separator
RECURSIVE split(_, _)
split(s, sep) ==
    LET i == find(s, sep)
    IN  IF i = 0 THEN <<s>>
        ELSE <<SubSeq(s, 1, i - 1)>>
             \o split(SubSeq(s, i + Len(sep), Len(s)), sep)

RECURSIVE lstrip(_)
lstrip(s) == IF s # <<>> /\ IsSpace(Head(s)) THEN lstrip(Tail(s)) ELSE s

RECURSIVE rstrip(_)
rstrip(s) ==
    IF s # <<>> /\ IsSpace(s[Len(s)]) THEN rstrip(SubSeq(s, 1, Len(s) - 1))
    ELSE s

\* s.strip()
strip(s) == rstrip(lstrip(s))

\* length of the longest prefix of s without whitespace
RECURSIVE WordLen(_)
WordLen(s) == IF s = <<>> \/ IsSpace(Head(s)) THEN 0 ELSE 1 + WordLen(Tail(s))

\* s.split(): the maximal runs of non-whitespace characters
RECURSIVE split_ws(_)
split_ws(s) ==
    LET r == lstrip(s)
        k == WordLen(r)
    IN  IF r = <<>> THEN <<>>
        ELSE <<SubSeq(r, 1, k)>> \o split_ws(SubSeq(r, k + 1, Len(r)))

\* sep.join(parts)
RECURSIVE join(_, _)
join(sep, parts) ==
    IF parts = <<>> THEN <<>>
    ELSE IF Len(parts) = 1 THEN parts[1]
    ELSE parts[1] \o sep \o join(sep, Tail(parts))

----------------------------------------------------------------------------
(* normalize_team_name                                                     *)

\* the dict replacements, in insertion order
replacements ==
    << <<(<<"r","e","p","u","b","l","i","c">>), <<>> >>,
       <<(<<"r","e","p",".">>), <<>> >>,
       <<(<<"t","u:","r","k","i","y","e">>), <<"t","u","r","k","e","y">> >>,
       <<(<<"t","u:","r","k","i","^.","y","e">>), <<"t","u","r","k","e","y">> >> >>

\* the loop over replacements.items(), from entry k on
RECURSIVE ApplyReplacements(_, _)
ApplyReplacements(name, k) ==
    IF k > Len(replacements) THEN name
    ELSE ApplyReplacements(replace(name, replacements[k][1], replacements[k][2]),
                           k + 1)

normalize_team_name(name) ==
    strip(join(<<" ">>, split_ws(ApplyReplacements(lower(name), 1))))

----------------------------------------------------------------------------
(* extract_teams                                                           *)

\* the list with ' at ' moved to the front
separatorsAtFirst ==
    << <<" ","a","t"," ">>, <<" ","v","s","."," ">>,
       <<" ","v","s"," ">>, <<" ","v"," ">> >>

\* separators = [' vs. ', ' vs ', ' at ', ' v ']
separators ==
    << <<" ","v","s","."," ">>, <<" ","v","s"," ">>,
       <<" ","a","t"," ">>, <<" ","v"," ">> >>

\* the sentinel (None, None)
NoTeams == [parsed |-> FALSE, team1 |-> <<>>, team2 |-> <<>>]

\* the loop over separators, from entry k on
RECURSIVE ExtractFrom(_, _)
ExtractFrom(title_lower, k) ==
    IF k > Len(separators) THEN NoTeams
    ELSE IF contains(title_lower, separators[k])
            /\ Len(split(title_lower, separators[k])) = 2
         THEN LET parts == split(title_lower, separators[k])
              IN  [parsed |-> TRUE,
                   team1 |-> normalize_team_name(strip(parts[1])),
                   team2 |-> normalize_team_name(strip(parts[2]))]
         ELSE ExtractFrom(title_lower, k + 1)

extract_teams(title) == ExtractFrom(lower(title), 1)

----------------------------------------------------------------------------
(* float scores as exact rationals                                         *)

RECURSIVE GCD(_, _)
GCD(a, b) == IF b = 0 THEN a ELSE GCD(b, a % b)

\* the rational n/d in lowest terms (n >= 0, d > 0)
Frac(n, d) == LET g == GCD(n, d) IN [n |-> n \div g, d |-> d \div g]

FLess(x, y) == x.n * y.d < y.n * x.d
FGeq(x, y)  == ~FLess(x, y)
FAvg(x, y)  == Frac(x.n * y.d + y.n * x.d, 2 * x.d * y.d)
FMax(x, y)  == IF FLess(x, y) THEN y ELSE x

----------------------------------------------------------------------------
(* difflib.SequenceMatcher(None, a, b).ratio(), no junk, strings shorter   *)
(* than the autojunk length                                                *)

\* length of the common run a[i..], b[j..] inside a[..ahi], b[..bhi]
RECURSIVE CommonLen(_, _, _, _, _, _)
CommonLen(a, b, i, j, ahi, bhi) ==
    IF i <= ahi /\ j <= bhi /\ a[i] = b[j]
    THEN 1 + CommonLen(a, b, i + 1, j + 1, ahi, bhi)
    ELSE 0

\* find_longest_match: the longest block, of those the one earliest in a,
\* of those the one earliest in b; size 0 when nothing matches
find_longest_match(a, b, alo, ahi, blo, bhi) ==
    LET blocks == {[i |-> i, j |-> j, size |-> CommonLen(a, b, i, j, ahi, bhi)] :
                      i \in alo..ahi, j \in blo..bhi}
        hits   == {m \in blocks : m.size > 0}
        better(m, o) == \/ m.size > o.size
                        \/ m.size = o.size /\ m.i < o.i
                        \/ m.size = o.size /\ m.i = o.i /\ m.j <= o.j
    IN  IF hits = {} THEN [i |-> alo, j |-> blo, size |-> 0]
        ELSE CHOOSE m \in hits : \A o \in hits : better(m, o)

\* get_matching_blocks: total size of the blocks found left and right of the
\* longest one, recursively
RECURSIVE MatchedChars(_, _, _, _, _, _)
MatchedChars(a, b, alo, ahi, blo, bhi) ==
    IF alo > ahi \/ blo > bhi THEN 0
    ELSE LET m == find_longest_match(a, b, alo, ahi, blo, bhi)
         IN  IF m.size = 0 THEN 0
             ELSE m.size
                  + MatchedChars(a, b, alo, m.i - 1, blo, m.j - 1)
                  + MatchedChars(a, b, m.i + m.size, ahi, m.j + m.size, bhi)

\* ratio(): 2.0 * matches / (len(a) + len(b)), 1.0 for two empty strings
ratio(a, b) ==
    IF Len(a) + Len(b) = 0 THEN Frac(1, 1)
    ELSE Frac(2 * MatchedChars(a, b, 1, Len(a), 1, Len(b)), Len(a) + Len(b))

----------------------------------------------------------------------------
(* teams_match                                                             *)

\* the reversed-order constant in the place of the same-order one
ExactScoreLow == Frac(19, 20)

ExactScore    == Frac(1, 1)       \* 1.0
ReversedScore == Frac(19, 20)     \* 0.95
ZeroScore     == Frac(0, 1)       \* 0.0
BothThreshold == Frac(7, 10)      \* 0.7
OneThreshold  == Frac(9, 10)      \* 0.9

\* the four ratios and best_score of two parsed team pairs
team1_match(teams1, teams2)   == ratio(teams1.team1, teams2.team1)
team2_match(teams1, teams2)   == ratio(teams1.team2, teams2.team2)
team1_reverse(teams1, teams2) == ratio(teams1.team1, teams2.team2)
team2_reverse(teams1, teams2) == ratio(teams1.team2, teams2.team1)

forward_score(teams1, teams2) ==
    FAvg(team1_match(teams1, teams2), team2_match(teams1, teams2))

reverse_score(teams1, teams2) ==
    FAvg(team1_reverse(teams1, teams2), team2_reverse(teams1, teams2))

best_score_of(teams1, teams2) ==
    FMax(forward_score(teams1, teams2), reverse_score(teams1, teams2))

\* "if best_score >= 0.7"
BothSimilar(teams1, teams2) == FGeq(best_score_of(teams1, teams2), BothThreshold)

\* the rescue rule with > in the place of >=
OneVerySimilarStrict(teams1, teams2) ==
    \/ FLess(OneThreshold, team1_match(teams1, teams2))
    \/ FLess(OneThreshold, team2_match(teams1, teams2))
    \/ FLess(OneThreshold, team1_reverse(teams1, teams2))
    \/ FLess(OneThreshold, team2_reverse(teams1, teams2))

\* "if team1_match >= 0.9 or team2_match >= 0.9 or team1_reverse >= 0.9 or
\*  team2_reverse >= 0.9"
OneVerySimilar(teams1, teams2) ==
    \/ FGeq(team1_match(teams1, teams2), OneThreshold)
    \/ FGeq(team2_match(teams1, teams2), OneThreshold)
    \/ FGeq(team1_reverse(teams1, teams2), OneThreshold)
    \/ FGeq(team2_reverse(teams1, teams2), OneThreshold)

\* no None test at all
ExtractionFailedNever(teams1, teams2) == FALSE

\* the None test with "and" in the place of "or"
ExtractionFailedBoth(teams1, teams2) == ~teams1.parsed /\ ~teams2.parsed

\* "if teams1[0] is None or teams2[0] is None"
ExtractionFailed(teams1, teams2) == ~teams1.parsed \/ ~teams2.parsed

\* "if teams1 == teams2"
SameOrder(teams1, teams2) ==
    teams1.team1 = teams2.team1 /\ teams1.team2 = teams2.team2

\* the reversed test comparing only the first team
ReverseOrderHalf(teams1, teams2) ==
    teams1.team1 = teams2.team2 /\ teams1.team2 = teams2.team2

\* "if teams1 == (teams2[1], teams2[0])"
ReverseOrder(teams1, teams2) ==
    teams1.team1 = teams2.team2 /\ teams1.team2 = teams2.team1

MatchOfTeams(teams1, teams2) ==
    IF ExtractionFailed(teams1, teams2)
    THEN [is_match |-> FALSE, score |-> ZeroScore]
    ELSE IF SameOrder(teams1, teams2)
    THEN [is_match |-> TRUE, score |-> ExactScore]
    ELSE IF ReverseOrder(teams1, teams2)
    THEN [is_match |-> TRUE, score |-> ReversedScore]
    ELSE IF BothSimilar(teams1, teams2)
    THEN [is_match |-> TRUE, score |-> best_score_of(teams1, teams2)]
    ELSE IF OneVerySimilar(teams1, teams2)
    THEN [is_match |-> TRUE, score |-> best_score_of(teams1, teams2)]
    ELSE [is_match |-> FALSE, score |-> best_score_of(teams1, teams2)]

teams_match(t1, t2) == MatchOfTeams(extract_teams(t1), extract_teams(t2))

----------------------------------------------------------------------------
(* merge_events                                                            *)

\* dict.get(key, default)
Get(event, key, default) == IF key \in DOMAIN event THEN event[key] ELSE default

\* [x for x in [a.get(key), b.get(key)] if x]
TruthyOnce(a, b, key) ==
    LET ua == IF key \in DOMAIN a /\ a[key] # "" THEN <<a[key]>> ELSE <<>>
        ub == IF key \in DOMAIN b /\ b[key] # "" THEN <<b[key]>> ELSE <<>>
    IN  IF ua = ub THEN ua ELSE ua \o ub

\* "[url for url in [sb_event.get(key), best_match.get(key)] if url]"
Truthy(a, b, key) ==
    (IF key \in DOMAIN a /\ a[key] # "" THEN <<a[key]>> ELSE <<>>)
    \o (IF key \in DOMAIN b /\ b[key] # "" THEN <<b[key]>> ELSE <<>>)

\* round(score, 1)
Round1(score) ==
    LET q == (10 * score.n) \div score.d
        r == (10 * score.n) % score.d
        up == 2 * r > score.d \/ (2 * r = score.d /\ q % 2 = 1)
    IN  Frac(IF up THEN q + 1 ELSE q, 10)

\* round(score, 2) in hundredths, a tie going to the even hundredth; the
\* scores the titles of the records produce on a match are whole hundredths
\* (1.0, 0.95, 0.5) or no tie (5/6), where the float and the rational round
\* alike
Round2(score) ==
    LET q == (100 * score.n) \div score.d
        r == (100 * score.n) % score.d
        up == 2 * r > score.d \/ (2 * r = score.d /\ q % 2 = 1)
    IN  Frac(IF up THEN q + 1 ELSE q, 100)

\* the dict merged_event
merged_event(sb_event, best_match, best_score) ==
    [title |-> sb_event.title,
     alternative_title |-> best_match.title,
     match_confidence |-> Round2(best_score),
     sport |-> Get(sb_event, "sport", ""),
     category |-> Get(best_match, "category", ""),
     sources |->
        [streambtw |-> [thumbnail |-> Get(sb_event, "thumbnail", ""),
                        m3u8_url |-> Get(sb_event, "m3u8_url", ""),
                        iframe_url |-> Get(sb_event, "iframe_url", ""),
                        headers |-> Get(sb_event, "headers", <<>>)],
         ptv |-> [thumbnail |-> Get(best_match, "thumbnail", ""),
                  m3u8_url |-> Get(best_match, "m3u8_url", ""),
                  iframe_url |-> Get(best_match, "iframe_url", ""),
                  tag |-> Get(best_match, "tag", ""),
                  starts_at |-> Get(best_match, "starts_at", ""),
                  ends_at |-> Get(best_match, "ends_at", "")]],
     all_m3u8_urls |-> Truthy(sb_event, best_match, "m3u8_url"),
     all_iframes |-> Truthy(sb_event, best_match, "iframe_url")]

\* titles of the records given to merge_events: a fixture, the same with the
\* teams swapped, one sharing a team, one sharing part of a name, one
\* without separator
MergeTitles ==
    { <<"a","b"," ","v","s"," ","c">>,
      <<"c"," ","v","s"," ","a","b">>,
      <<"a","b"," ","v","s"," ","d">>,
      <<"a","d"," ","v","s"," ","e">>,
      <<"a","b">> }

\* titles of the records that carry optional fields: the streambtw records
\* have one spelling of a fixture, the ptv records this one or another
SbTitles == { <<"a"," ","v","s"," ","c">> }

FieldTitles ==
    { <<"a"," ","v","s"," ","c">>,
      <<"a","b"," ","v","s"," ","c">> }

AllTitles == MergeTitles \cup FieldTitles

\* "is_match, score = teams_match(sb_event['title'], ptv_event['title'])",
\* tabulated over the titles of the records
title_match == [t1 \in AllTitles, t2 \in AllTitles |-> teams_match(t1, t2)]

\* the scan starting from the threshold of line 75 in the place of 0
NoBestAtThreshold ==
    [best_match |-> <<>>, best_score |-> BothThreshold, best_index |-> 0]

\* best_match = None, best_score = 0, best_index = -1 (indices count from 1,
\* so -1 is written 0)
NoBest == [best_match |-> <<>>, best_score |-> ZeroScore, best_index |-> 0]

\* the comparison letting an equal score replace the best
ImprovesOrEqual(m, best) == m.is_match /\ FGeq(m.score, best.best_score)

\* "if is_match and score > best_score"
Improves(m, best) == m.is_match /\ FLess(best.best_score, m.score)

\* the inner loop leaving after the first record of the pool
ScanPoolFirst(sb_event, pool, i, best) ==
    IF i > Len(pool) THEN best
    ELSE LET m == title_match[sb_event.title, pool[i].title]
         IN  IF Improves(m, best)
             THEN [best_match |-> <<pool[i]>>, best_score |-> m.score,
                   best_index |-> i]
             ELSE best

\* the inner loop passing over the pool records without a stream URL
RECURSIVE ScanPoolWithUrl(_, _, _, _)
ScanPoolWithUrl(sb_event, pool, i, best) ==
    IF i > Len(pool) THEN best
    ELSE LET m == title_match[sb_event.title, pool[i].title]
         IN  ScanPoolWithUrl(sb_event, pool, i + 1,
                             IF Improves(m, best) /\ "m3u8_url" \in DOMAIN pool[i]
                             THEN [best_match |-> <<pool[i]>>,
                                   best_score |-> m.score, best_index |-> i]
                             ELSE best)

\* the inner loop "for i, ptv_event in enumerate(unmatched_ptv)", from i on;
\* best_match holds the chosen record as a one-element sequence
RECURSIVE ScanPool(_, _, _, _)
ScanPool(sb_event, pool, i, best) ==
    IF i > Len(pool) THEN best
    ELSE LET m == title_match[sb_event.title, pool[i].title]
         IN  ScanPool(sb_event, pool, i + 1,
                      IF Improves(m, best)
                      THEN [best_match |-> <<pool[i]>>, best_score |-> m.score,
                            best_index |-> i]
                      ELSE best)

\* pop that removes nothing
popKeeps(list, index) == list

\* pop that always removes the first record
popFirst(list, index) == Tail(list)

\* list.pop(index)
pop(list, index) ==
    SubSeq(list, 1, index - 1) \o SubSeq(list, index + 1, Len(list))

\* the pool being the caller's list itself: the pop shortens that list too
input_shares_pool(events, index) == pop(events, index)

\* the caller's list ptv_events after unmatched_ptv.pop(index): the pool is
\* the copy list(ptv_events) of line 156, so the caller's list keeps its records
input_after_pop(events, index) == events

\* a list that outlives the call
StaleMerged == merged

\* merged = []
NewMerged == <<>>

\* unmatched_streambtw = []
NewUnmatched == <<>>

\* unmatched_ptv = list(ptv_events)
NewPool(events) == events

----------------------------------------------------------------------------
(* inputs                                                                  *)

MaxTokens == 3
MaxA == 2
MaxB == 2
MaxRuns == 2

\* pieces the argument of the text functions is built from
Tokens ==
    { <<"a">>,
      <<"B">>,
      <<"c"," ","a","t"," ","d">>,
      <<" ","v","s"," ">>,
      <<" ","v","s","."," ">>,
      <<" ","a","t"," ">>,
      <<" ","v"," ">>,
      <<" ">>,
      <<"\t">>,
      <<"r","e">>,
      <<"p","u","b","l","i","c">>,
      <<"r","e","p","u","b","l","i","c">>,
      <<"r","e","p",".">>,
      <<"t","u:","r","k","i","y","e">>,
      <<"T","U:","R","K","I.","Y","E">> }

RECURSIVE TextsUpTo(_)
TextsUpTo(k) ==
    IF k = 0 THEN {<<>>}
    ELSE LET shorter == TextsUpTo(k - 1)
         IN  shorter \cup {s \o t : s \in shorter, t \in Tokens}

Texts == TextsUpTo(MaxTokens)

\* team names and separating strings the titles given to teams_match are
\* built from
TeamNames ==
    { <<"a">>,
      <<"b">>,
      <<"a","b">>,
      <<"b","c","d">>,
      <<"a","b","c","d","e","f","g","h","i","j">>,
      <<"a","b","c","d","e","f","g","h","i","x">>,
      <<"r","e","p",".">> }

Between ==
    { <<" ","v","s"," ">>,
      <<" ","v"," ">>,
      <<"-">> }

MatchTitles == {a \o s \o b : a \in TeamNames, s \in Between, b \in TeamNames}

\* the lists of at most k records with these titles; pos is the identity
\* of the record object, its place in the list
EventLists(k) ==
    UNION {[1..n -> MergeTitles] : n \in 0..k}

AsEvents(titles) == [p \in 1..Len(titles) |-> [pos |-> p, title |-> titles[p]]]

----------------------------------------------------------------------------
(* the text functions applied to one argument                              *)

TextIdle ==
    /\ text = <<>> /\ name1 = <<>> /\ name2 = <<>> /\ teams = NoTeams
    /\ tpc = "idle"

MatchIdle ==
    /\ title1 = <<>> /\ title2 = <<>>
    /\ result = [is_match |-> FALSE, score |-> ZeroScore]
    /\ mpc = "idle"

MergeIdle ==
    /\ streambtw_events = <<>> /\ ptv_events = <<>>
    /\ merged = <<>> /\ unmatched_streambtw = <<>> /\ unmatched_ptv = <<>>
    /\ paired = <<>> /\ ai = 0 /\ pc = "idle" /\ run = 0
    /\ returned = <<>> /\ previous = <<>> /\ pairings = <<>>

FetchIdle ==
    /\ max_retries = 0 /\ request_count = 0 /\ success_count = 0
    /\ failure_count = 0 /\ attempt = 0 /\ fpc = "idle" /\ fresult = "none"
    /\ seen = <<>> /\ waits = 0 /\ calls = 0
    /\ entry = [request_count |-> 0, success_count |-> 0, failure_count |-> 0]

InitText ==
    /\ text \in Texts
    /\ name1 = <<>> /\ name2 = <<>> /\ teams = NoTeams
    /\ tpc = "called"
    /\ MatchIdle /\ MergeIdle /\ FetchIdle

\* name = normalize_team_name(text)
Normalize ==
    /\ tpc = "called"
    /\ name1' = normalize_team_name(text)
    /\ tpc' = "normalized"
    /\ UNCHANGED <<text, name2, teams, matchVars, mergeVars,
                 fetchVars>>

\* normalize_team_name applied to its own result
Renormalize ==
    /\ tpc = "normalized"
    /\ name2' = normalize_team_name(name1)
    /\ tpc' = "renormalized"
    /\ UNCHANGED <<text, name1, teams, matchVars, mergeVars,
                 fetchVars>>

\* teams = extract_teams(text)
Extract ==
    /\ tpc = "called"
    /\ teams' = extract_teams(text)
    /\ tpc' = "extracted"
    /\ UNCHANGED <<text, name1, name2, matchVars, mergeVars,
                 fetchVars>>

NextText == Normalize \/ Renormalize \/ Extract

SpecText == InitText /\ [][NextText]_vars

----------------------------------------------------------------------------
(* teams_match applied to two titles                                       *)

InitMatch ==
    /\ title1 \in MatchTitles /\ title2 \in MatchTitles
    /\ result = [is_match |-> FALSE, score |-> ZeroScore]
    /\ mpc = "called"
    /\ TextIdle /\ MergeIdle /\ FetchIdle

\* result = teams_match(title1, title2)
TeamsMatch ==
    /\ mpc = "called"
    /\ result' = teams_match(title1, title2)
    /\ mpc' = "returned"
    /\ UNCHANGED <<title1, title2, textVars, mergeVars,
                 fetchVars>>

NextMatch == TeamsMatch

SpecMatch == InitMatch /\ [][NextMatch]_vars

----------------------------------------------------------------------------
(* merge_events, one action per iteration of the outer loop                *)

Init ==
    /\ streambtw_events \in {AsEvents(t) : t \in EventLists(MaxA)}
    /\ ptv_events \in {AsEvents(t) : t \in EventLists(MaxB)}
    /\ merged = <<>>
    /\ unmatched_streambtw = <<>>
    /\ unmatched_ptv = <<>>
    /\ paired = <<>>
    /\ ai = 0
    /\ pc = "caller"
    /\ run = 0
    /\ returned = <<>>
    /\ previous = <<>>
    /\ pairings = <<>>
    /\ TextIdle /\ MatchIdle /\ FetchIdle

\* merge_events(streambtw_events, ptv_events) is entered: lines 154-156
Call ==
    /\ pc = "caller" /\ run < MaxRuns
    /\ merged' = NewMerged
    /\ unmatched_streambtw' = NewUnmatched
    /\ unmatched_ptv' = NewPool(ptv_events)
    /\ paired' = <<>>
    /\ ai' = 0
    /\ pc' = "loop"
    /\ run' = run + 1
    /\ UNCHANGED <<streambtw_events, ptv_events, returned, previous, pairings,
                   textVars, matchVars,
                   fetchVars>>

\* the outer loop walking the list from its end
sb_reversed == streambtw_events[Len(streambtw_events) - ai]

\* the A record the outer loop is at, and the outcome of its scan of the pool
sb_current == streambtw_events[ai + 1]
best_current == ScanPool(sb_current, unmatched_ptv, 1, NoBest)

\* "if best_match:" taken: build the merged event, pop the B record
MergeMatched ==
    /\ pc = "loop" /\ ai < Len(streambtw_events)
    /\ LET best == best_current
       IN  /\ best.best_match # <<>>
           /\ merged' = Append(merged,
                               merged_event(sb_current, best.best_match[1],
                                            best.best_score))
           /\ paired' = Append(paired, [a |-> sb_current.pos,
                                        b |-> best.best_match[1].pos])
           /\ unmatched_ptv' = pop(unmatched_ptv, best.best_index)
           /\ ptv_events' = input_after_pop(ptv_events, best.best_index)
    /\ ai' = ai + 1
    /\ UNCHANGED <<streambtw_events, unmatched_streambtw, pc, run,
                   returned, previous, pairings, textVars, matchVars,
                   fetchVars>>

\* "else:" taken: the A record stays unmatched
KeepUnmatched ==
    /\ pc = "loop" /\ ai < Len(streambtw_events)
    /\ best_current.best_match = <<>>
    /\ unmatched_streambtw' = Append(unmatched_streambtw, sb_current)
    /\ ai' = ai + 1
    /\ UNCHANGED <<streambtw_events, ptv_events, merged, paired, unmatched_ptv,
                   pc, run, returned, previous, pairings, textVars, matchVars,
                   fetchVars>>

\* "return merged, unmatched_streambtw, unmatched_ptv"; the caller keeps the
\* result of the call before in previous
Return ==
    /\ pc = "loop" /\ ai = Len(streambtw_events)
    /\ returned' = <<merged, unmatched_streambtw, unmatched_ptv>>
    /\ previous' = returned
    /\ pairings' = Append(pairings, paired)
    /\ pc' = "caller"
    /\ UNCHANGED <<streambtw_events, ptv_events, merged, paired,
                   unmatched_streambtw, unmatched_ptv, ai, run,
                   textVars, matchVars,
                   fetchVars>>

Next == Call \/ MergeMatched \/ KeepUnmatched \/ Return

Spec == Init /\ [][Next]_vars

----------------------------------------------------------------------------
(* merge_events called again after the caller has taken the records        *)
(* without teams out of both lists                                         *)

\* "teams1[0] is None" for the title of a record, tabulated
title_parsed == [t \in AllTitles |-> extract_teams(t).parsed]

Parsable(events) == SelectSeq(events, LAMBDA e : title_parsed[e.title])

\* the caller filters both lists between two calls; the records keep their
\* identity pos
DropUnparsable ==
    /\ pc = "caller" /\ run >= 1 /\ run < MaxRuns
    /\ \/ Parsable(streambtw_events) # streambtw_events
       \/ Parsable(ptv_events) # ptv_events
    /\ streambtw_events' = Parsable(streambtw_events)
    /\ ptv_events' = Parsable(ptv_events)
    /\ UNCHANGED <<merged, unmatched_streambtw, unmatched_ptv, paired, ai, pc,
                   run, returned, previous, pairings, textVars, matchVars,
                   fetchVars>>

NextDrop == Next \/ DropUnparsable

SpecDrop == Init /\ [][NextDrop]_vars

----------------------------------------------------------------------------
(* merge_events on records that carry the optional fields                  *)

MaxFieldA == 1
MaxFieldB == 2

\* the optional keys of a streambtw record (lines 182, 186-191): none, all,
\* or some of them empty
SbFields ==
    { <<>>,
      [sport |-> "soccer", thumbnail |-> "ta", m3u8_url |-> "u1",
       iframe_url |-> "f1", headers |-> [referer |-> "r"]],
      [sport |-> "", m3u8_url |-> "", iframe_url |-> "f1", headers |-> <<>>] }

\* the optional keys of a ptv record (lines 183, 192-199)
PtvFields ==
    { <<>>,
      [category |-> "cup", tag |-> "t", thumbnail |-> "tb", m3u8_url |-> "u1",
       iframe_url |-> "f2", starts_at |-> "s", ends_at |-> "e"],
      [category |-> "", m3u8_url |-> "u2", iframe_url |-> ""] }

\* a record of title and identity with the optional fields f
WithFields(p, t, f) == [pos |-> p, title |-> t] @@ f

\* the lists of at most k records with a title of T and fields of F
FieldLists(T, F, k) ==
    UNION { { [p \in 1..n |-> WithFields(p, c[p][1], c[p][2])] :
              c \in [1..n -> T \X F] } : n \in 0..k }

Refielded(events, f) ==
    [p \in 1..Len(events) |-> WithFields(events[p].pos, events[p].title, f)]

InitFields ==
    /\ streambtw_events \in FieldLists(SbTitles, SbFields, MaxFieldA)
    /\ ptv_events \in FieldLists(FieldTitles, PtvFields, MaxFieldB)
    /\ merged = <<>>
    /\ unmatched_streambtw = <<>>
    /\ unmatched_ptv = <<>>
    /\ paired = <<>>
    /\ ai = 0
    /\ pc = "caller"
    /\ run = 0
    /\ returned = <<>>
    /\ previous = <<>>
    /\ pairings = <<>>
    /\ TextIdle /\ MatchIdle /\ FetchIdle

\* the caller rebuilds the records after the first call with other optional
\* fields; title, order and identity stay
ChangeFields ==
    /\ pc = "caller" /\ run = 1 /\ run < MaxRuns
    /\ \E fa \in SbFields, fb \in PtvFields :
          /\ streambtw_events' = Refielded(streambtw_events, fa)
          /\ ptv_events' = Refielded(ptv_events, fb)
    /\ UNCHANGED <<merged, unmatched_streambtw, unmatched_ptv, paired, ai, pc,
                   run, returned, previous, pairings, textVars, matchVars,
                   fetchVars>>

NextFields == Next \/ ChangeFields

SpecFields == InitFields /\ [][NextFields]_vars

----------------------------------------------------------------------------
(* fetch_iframe_with_retry, one action per iteration of its loop           *)

\* max_retries of the handler is at most MaxRetries (main passes
\* MAX_RETRIES = 3); the caller fetches at most MaxCalls URLs
MaxRetries == 3
MaxCalls == 2

\* what requests.get does at line 96: a response with status 200, 429, 403
\* or another code (written 500), or one of the two exceptions caught
Outcomes == {"200", "429", "403", "500", "Timeout", "RequestException"}

\* the function left on status 200 only, a 403 going on like another code
ReturnsOn200Only(outcome) == outcome = "200"

\* the branches that leave the function: "return response.text" (line 102)
\* and "return None" (line 116)
Returns(outcome) == outcome \in {"200", "403"}

\* the value returned by these branches
ReturnedOn(outcome) == IF outcome = "200" THEN "text" ELSE "None"

\* the branches with "rate_handler.failure_count += 1": 429, 403, else
CountsFailure(outcome) == outcome \in {"429", "403", "500"}

\* rate_handler.wait before the request: on a retry, or on the first attempt
\* of a later URL (lines 80-85)
WaitsBefore(att, count) == IF att > 0 \/ count > 1 THEN 1 ELSE 0

\* rate_handler.wait after a 429, a Timeout or a RequestException when an
\* attempt is left (lines 108-109, 126-127, 132-133)
WaitsAfter(outcome, att, max) ==
    IF outcome \in {"429", "Timeout", "RequestException"} /\ att < max - 1
    THEN 1 ELSE 0

InitFetch ==
    /\ max_retries \in 1..MaxRetries
    /\ request_count = 0 /\ success_count = 0 /\ failure_count = 0
    /\ attempt = 0
    /\ fpc = "caller"
    /\ fresult = "none"
    /\ seen = <<>>
    /\ waits = 0
    /\ calls = 0
    /\ entry = [request_count |-> 0, success_count |-> 0, failure_count |-> 0]
    /\ TextIdle /\ MatchIdle /\ MergeIdle

\* fetch_iframe_with_retry(url, rate_handler) is entered: line 75
FetchCall ==
    /\ fpc = "caller" /\ calls < MaxCalls
    /\ entry' = [request_count |-> request_count,
                 success_count |-> success_count,
                 failure_count |-> failure_count]
    /\ request_count' = request_count + 1
    /\ attempt' = 0
    /\ seen' = <<>>
    /\ waits' = 0
    /\ fresult' = "none"
    /\ calls' = calls + 1
    /\ fpc' = "loop"
    /\ UNCHANGED <<max_retries, success_count, failure_count,
                   textVars, matchVars, mergeVars>>

\* one iteration of "for attempt in range(rate_handler.max_retries)": the
\* wait, the request, and the branch on what the request did
Attempt ==
    /\ fpc = "loop" /\ attempt < max_retries
    /\ \E outcome \in Outcomes :
          /\ seen' = Append(seen, outcome)
          /\ waits' = waits + WaitsBefore(attempt, request_count)
                            + WaitsAfter(outcome, attempt, max_retries)
          /\ success_count' =
                 IF outcome = "200" THEN success_count + 1 ELSE success_count
          /\ failure_count' =
                 IF CountsFailure(outcome) THEN failure_count + 1
                 ELSE failure_count
          /\ IF Returns(outcome)
             THEN /\ fresult' = ReturnedOn(outcome)
                  /\ fpc' = "caller"
                  /\ attempt' = attempt
             ELSE /\ fresult' = fresult
                  /\ fpc' = "loop"
                  /\ attempt' = attempt + 1
    /\ UNCHANGED <<max_retries, request_count, calls, entry,
                   textVars, matchVars, mergeVars>>

\* the loop is over: lines 137-139
Exhausted ==
    /\ fpc = "loop" /\ attempt >= max_retries
    /\ failure_count' = failure_count + 1
    /\ fresult' = "None"
    /\ fpc' = "caller"
    /\ UNCHANGED <<max_retries, request_count, success_count, attempt, seen,
                   waits, calls, entry, textVars, matchVars, mergeVars>>

NextFetch == FetchCall \/ Attempt \/ Exhausted

SpecFetch == InitFetch /\ [][NextFetch]_vars

\* a call that has been entered takes its steps: requests.get answers or
\* raises within TIMEOUT, and every wait sleeps at most 60 seconds
FairFetch == SpecFetch /\ WF_vars(Attempt) /\ WF_vars(Exhausted)

----------------------------------------------------------------------------
(* properties of the text functions and of teams_match                     *)

Trimmed(s) == s = <<>> \/ (~IsSpace(s[1]) /\ ~IsSpace(s[Len(s)]))

\* C3: extract_teams returns the sentinel (None, None) or two non-empty
\* strings without leading or trailing whitespace.
C3_SentinelOrNonEmptyPair ==
    tpc = "extracted" =>
        \/ teams = NoTeams
        \/ /\ teams.parsed
           /\ teams.team1 # <<>> /\ teams.team2 # <<>>
           /\ Trimmed(teams.team1) /\ Trimmed(teams.team2)

\* C4: normalize_team_name applied to its own result changes nothing.
C4_Idempotent ==
    tpc = "renormalized" => name2 = name1

\* C5: teams_match returns (False, 0.0) whenever extract_teams fails for one
\* of the two titles, also for two equal titles.
C5_UnparsableNeverMatches ==
    (/\ mpc = "returned"
     /\ extract_teams(title1) = NoTeams \/ extract_teams(title2) = NoTeams)
        => result = [is_match |-> FALSE, score |-> Frac(0, 1)]

\* the same unparsable string on both sides
C5_Witness ==
    /\ mpc = "returned"
    /\ title1 = title2
    /\ extract_teams(title1) = NoTeams
    /\ result = [is_match |-> FALSE, score |-> Frac(0, 1)]

\* title t extracts to two distinct non-empty team names
TwoDistinctTeams(t) ==
    LET e == extract_teams(t)
    IN  e.parsed /\ e.team1 # <<>> /\ e.team2 # <<>> /\ e.team1 # e.team2

\* C6: a title with two distinct non-empty team names matches itself with
\* score 1.0.
C6_Reflexive ==
    (mpc = "returned" /\ title1 = title2 /\ TwoDistinctTeams(title1))
        => result = [is_match |-> TRUE, score |-> Frac(1, 1)]

C6_Witness ==
    /\ mpc = "returned" /\ title1 = title2 /\ TwoDistinctTeams(title1)
    /\ result.is_match

\* the two titles parse to team pairs that are each other's swap
Swapped(t1, t2) ==
    LET e1 == extract_teams(t1)
        e2 == extract_teams(t2)
    IN  e1.parsed /\ e2.parsed /\ e1.team1 = e2.team2 /\ e1.team2 = e2.team1

SameTeams(t1, t2) ==
    LET e1 == extract_teams(t1)
        e2 == extract_teams(t2)
    IN  e1.parsed /\ e2.parsed /\ e1.team1 = e2.team1 /\ e1.team2 = e2.team2

\* C7: swapped team pairs that are not equal in forward order score exactly
\* 0.95; when they are also equal in forward order the score is 1.0.
C7_ReversedScore ==
    (mpc = "returned" /\ Swapped(title1, title2)) =>
        IF SameTeams(title1, title2)
        THEN result = [is_match |-> TRUE, score |-> Frac(1, 1)]
        ELSE result = [is_match |-> TRUE, score |-> Frac(19, 20)]

\* swapped, not equal, and the reversed ratios alone would have given 1.0
C7_Witness ==
    /\ mpc = "returned"
    /\ Swapped(title1, title2) /\ ~SameTeams(title1, title2)
    /\ extract_teams(title1).team1 # <<>>
    /\ result.score = Frac(19, 20)

\* C8: when both titles parse and neither exact test applies, the result is
\* a match exactly when best_score >= 0.7 or one of the four ratios is
\* >= 0.9, and the score is best_score either way.
C8_ThresholdRule ==
    (/\ mpc = "returned"
     /\ extract_teams(title1).parsed /\ extract_teams(title2).parsed
     /\ ~SameTeams(title1, title2) /\ ~Swapped(title1, title2))
        => LET e1 == extract_teams(title1)
               e2 == extract_teams(title2)
               r1 == ratio(e1.team1, e2.team1)
               r2 == ratio(e1.team2, e2.team2)
               r3 == ratio(e1.team1, e2.team2)
               r4 == ratio(e1.team2, e2.team1)
               fwd == Frac(r1.n * r2.d + r2.n * r1.d, 2 * r1.d * r2.d)
               rev == Frac(r3.n * r4.d + r4.n * r3.d, 2 * r3.d * r4.d)
               best == IF fwd.n * rev.d >= rev.n * fwd.d THEN fwd ELSE rev
               accept == \/ 10 * best.n >= 7 * best.d
                         \/ \E r \in {r1, r2, r3, r4} : 10 * r.n >= 9 * r.d
           IN  result = [is_match |-> accept, score |-> best]

\* ratios 0.90 and 0.40: accepted by the single-team rule with score 0.65
C8_Witness ==
    /\ mpc = "returned"
    /\ extract_teams(title1).parsed /\ extract_teams(title2).parsed
    /\ ratio(extract_teams(title1).team1, extract_teams(title2).team1) = Frac(9, 10)
    /\ ratio(extract_teams(title1).team2, extract_teams(title2).team2) = Frac(2, 5)
    /\ result = [is_match |-> TRUE, score |-> Frac(13, 20)]

----------------------------------------------------------------------------
(* properties of merge_events                                              *)

Range(f) == {f[x] : x \in DOMAIN f}
Positions(list) == {list[x].pos : x \in DOMAIN list}

\* teams_match of the A record at place i and the B record at place k
MatchAB(i, k) == title_match[streambtw_events[i].title, ptv_events[k].title]

\* C1: the counts partition both inputs: after every iteration of the outer
\* loop, merged and unmatched_streambtw together number the A records
\* processed, and merged and the pool together number the B records; the
\* returned lists number len(A) and len(B).
C1_CountsPartition ==
    /\ pc = "loop" =>
          /\ Len(merged) + Len(unmatched_streambtw) = ai
          /\ Len(merged) + Len(unmatched_ptv) = Len(ptv_events)
    /\ (pc = "caller" /\ run >= 1) =>
          /\ Len(returned[1]) + Len(returned[2]) = Len(streambtw_events)
          /\ Len(returned[1]) + Len(returned[3]) = Len(ptv_events)

C1_Witness ==
    /\ pc = "caller" /\ run >= 1
    /\ Len(returned[1]) >= 1 /\ Len(returned[2]) >= 1 /\ Len(returned[3]) >= 1

\* number of merged events that use B place p, and of pool entries that are it
BInMerged(p) == Cardinality({x \in DOMAIN paired : paired[x].b = p})
BInPool(p) == Cardinality({x \in DOMAIN unmatched_ptv : unmatched_ptv[x].pos = p})
AInMerged(p) == Cardinality({x \in DOMAIN paired : paired[x].a = p})
AInUnmatched(p) ==
    Cardinality({x \in DOMAIN unmatched_streambtw : unmatched_streambtw[x].pos = p})

\* C2: every B place is in exactly one merged event or exactly once in the
\* pool, never both; every processed A place is in exactly one merged event
\* or exactly once in unmatched_streambtw; each merged event carries the
\* titles of the two records it pairs.
C2_OneToOne ==
    pc = "loop" \/ (pc = "caller" /\ run >= 1) =>
        /\ \A p \in 1..Len(ptv_events) : BInMerged(p) + BInPool(p) = 1
        /\ \A p \in 1..ai : AInMerged(p) + AInUnmatched(p) = 1
        /\ Len(paired) = Len(merged)
        /\ \A x \in DOMAIN paired :
              /\ merged[x].title = streambtw_events[paired[x].a].title
              /\ merged[x].alternative_title = ptv_events[paired[x].b].title

\* two equal B records, one of them merged and the other left over
C2_Witness ==
    /\ pc = "caller" /\ run >= 1
    /\ \E p, q \in 1..Len(ptv_events) :
          /\ p # q /\ ptv_events[p].title = ptv_events[q].title
          /\ BInMerged(p) = 1 /\ BInPool(q) = 1

\* C9: a second call on the same lists returns what the first call returned.
C9_SameResultAgain ==
    (pc = "caller" /\ run >= 2) => returned = previous

C9_Witness ==
    /\ pc = "caller" /\ run >= 2
    /\ Len(returned[1]) >= 1 /\ Len(returned[2]) >= 1

\* the A records at places i < j both match the B record at place k and no
\* other B record
Contested(i, j, k) ==
    /\ i < j
    /\ MatchAB(i, k).is_match /\ MatchAB(j, k).is_match
    /\ \A o \in 1..Len(ptv_events) :
          o # k => ~MatchAB(i, o).is_match /\ ~MatchAB(j, o).is_match

FirstClaims(i, j, k) ==
    /\ [a |-> i, b |-> k] \in Range(paired)
    /\ j \in Positions(unmatched_streambtw)

----------------------------------------------------------------------------
(* properties of the merged record                                         *)

\* the record of a list with identity p
EventOf(events, p) == CHOOSE e \in Range(events) : e.pos = p

\* the value of an optional key, empty when the key is absent
FieldOr(event, key) == IF key \in DOMAIN event THEN event[key] ELSE ""

\* c is a number of hundredths and no hundredth is nearer to score
NearestHundredth(c, score) ==
    /\ 100 % c.d = 0
    /\ LET diff == c.n * score.d - score.n * c.d
           dist == IF diff < 0 THEN 0 - diff ELSE diff
       IN  200 * dist <= c.d * score.d

\* C11: while merge_events runs, every merged event has the title of its A
\* record, the title of its B record as alternative_title, the score
\* teams_match gave the two titles (with is_match true) rounded to two
\* decimals as match_confidence, the category of B and the sport of A.
C11_MergedFields ==
    pc = "loop" =>
        \A x \in DOMAIN merged :
            LET a == EventOf(streambtw_events, paired[x].a)
                b == EventOf(ptv_events, paired[x].b)
                m == title_match[a.title, b.title]
            IN  /\ merged[x].title = a.title
                /\ merged[x].alternative_title = b.title
                /\ m.is_match
                /\ NearestHundredth(merged[x].match_confidence, m.score)
                /\ merged[x].category = FieldOr(b, "category")
                /\ merged[x].sport = FieldOr(a, "sport")

\* a merged event of two different spellings (score 5/6) whose records carry
\* a sport and a category
C11_Witness ==
    /\ pc = "loop"
    /\ \E x \in DOMAIN merged :
          /\ merged[x].title # merged[x].alternative_title
          /\ merged[x].match_confidence = Frac(83, 100)
          /\ merged[x].sport = "soccer"
          /\ merged[x].category = "cup"

\* the non-empty values of a key, the A record's before the B record's
UrlsOf(a, b, key) ==
    LET ua == FieldOr(a, key)
        ub == FieldOr(b, key)
    IN  CASE ua # "" /\ ub # "" -> <<ua, ub>>
          [] ua # "" /\ ub = "" -> <<ua>>
          [] ua = "" /\ ub # "" -> <<ub>>
          [] OTHER -> <<>>

\* C12: all_m3u8_urls of a merged event is the m3u8_url of A followed by
\* the m3u8_url of B, an empty or absent value left out, nothing else put
\* in, and an URL both records carry kept twice; all_iframes likewise.
C12_UrlLists ==
    pc = "loop" =>
        \A x \in DOMAIN merged :
            LET a == EventOf(streambtw_events, paired[x].a)
                b == EventOf(ptv_events, paired[x].b)
            IN  /\ merged[x].all_m3u8_urls = UrlsOf(a, b, "m3u8_url")
                /\ merged[x].all_iframes = UrlsOf(a, b, "iframe_url")

\* both records carry the URL u1 and the list holds it twice
C12_Witness ==
    /\ pc = "loop"
    /\ \E x \in DOMAIN merged :
          /\ merged[x].all_m3u8_urls = <<"u1", "u1">>
          /\ merged[x].all_iframes = <<"f1", "f2">>

----------------------------------------------------------------------------
(* records whose title holds no two teams                                  *)

Unparsable(events) == {e \in Range(events) : ~title_parsed[e.title]}

\* C13: a title without two teams never stops merge_events: every
\* iteration done has put its A record into merged or unmatched_streambtw,
\* an A record without teams into unmatched_streambtw; at return every A
\* record with such a title is in unmatched_streambtw and every B record
\* with such a title is in unmatched_ptv; and a call on the lists without
\* these records pairs the other records as the call before did.
C13_UnparsableStaysOut ==
    /\ pc = "loop" =>
           /\ ai <= Len(streambtw_events)
           /\ Len(merged) + Len(unmatched_streambtw) = ai
           /\ \A p \in 1..ai :
                  ~title_parsed[streambtw_events[p].title] =>
                      streambtw_events[p] \in Range(unmatched_streambtw)
    /\ (pc = "caller" /\ run >= 1) =>
           /\ Unparsable(streambtw_events) \subseteq Range(returned[2])
           /\ Unparsable(ptv_events) \subseteq Range(returned[3])
    /\ (pc = "caller" /\ run >= 2) => pairings[run] = pairings[run - 1]

\* both lists held a record without teams at the first call, the caller took
\* them out, and the second call paired records
C13_Witness ==
    /\ pc = "caller" /\ run = 2
    /\ \E e \in Range(previous[2]) : ~title_parsed[e.title]
    /\ \E e \in Range(previous[3]) : ~title_parsed[e.title]
    /\ Unparsable(streambtw_events) = {}
    /\ Unparsable(ptv_events) = {}
    /\ pairings[2] # <<>>

----------------------------------------------------------------------------
(* the optional fields                                                     *)

SbKeys == {"thumbnail", "m3u8_url", "iframe_url"}
PtvKeys == {"thumbnail", "m3u8_url", "iframe_url", "tag", "starts_at", "ends_at"}

\* the merged event x shows every optional key its records lack as the
\* empty string, and absent headers as the empty mapping
AbsentIsEmpty(x) ==
    LET a == EventOf(streambtw_events, paired[x].a)
        b == EventOf(ptv_events, paired[x].b)
    IN  /\ "sport" \notin DOMAIN a => merged[x].sport = ""
        /\ "category" \notin DOMAIN b => merged[x].category = ""
        /\ "headers" \notin DOMAIN a =>
               merged[x].sources.streambtw.headers = <<>>
        /\ \A k \in SbKeys \ DOMAIN a : merged[x].sources.streambtw[k] = ""
        /\ \A k \in PtvKeys \ DOMAIN b : merged[x].sources.ptv[k] = ""

\* C14: the optional fields neither decide the pairing nor stop a record
\* from being built: every iteration done has given a merged event or an
\* unmatched record, a merged event shows an absent optional field as the
\* empty string or the empty mapping, and a call on the same titles in the
\* same order with other optional fields returns the pairing of the call
\* before.
C14_FieldsDoNotDecide ==
    /\ pc = "loop" => Len(merged) + Len(unmatched_streambtw) = ai
    /\ pc = "loop" => \A x \in DOMAIN merged : AbsentIsEmpty(x)
    /\ (pc = "caller" /\ run >= 2) => pairings[run] = pairings[run - 1]

\* the second call ran on records without optional fields where the first
\* call had them, and paired records
C14_Witness ==
    /\ pc = "caller" /\ run = 2
    /\ pairings[2] # <<>>
    /\ previous[1][1].sport = "soccer" /\ previous[1][1].category = "cup"
    /\ returned[1][1].sport = "" /\ returned[1][1].category = ""
    /\ "sport" \notin DOMAIN streambtw_events[1]
    /\ \A p \in DOMAIN ptv_events : DOMAIN ptv_events[p] = {"pos", "title"}

----------------------------------------------------------------------------
(* the choice of the B record                                              *)

\* teams_match of the A record a against the k-th record of the pool
AgainstPool(a, k) == title_match[a.title, unmatched_ptv[k].title]

\* the step appends a merged event
Merges == pc = "loop" /\ Len(merged') = Len(merged) + 1

\* the k-th pool record matches a, no matching pool record scores higher,
\* and none with the same score stands before it
BestEarliest(a, k) ==
    /\ AgainstPool(a, k).is_match
    /\ \A j \in DOMAIN unmatched_ptv :
          AgainstPool(a, j).is_match =>
              /\ ~FLess(AgainstPool(a, k).score, AgainstPool(a, j).score)
              /\ AgainstPool(a, j).score = AgainstPool(a, k).score => k <= j

\* C15: whenever an A record is merged, the B record it is paired with is a
\* record of the pool with is_match true whose score is the greatest among
\* the matching pool records, and the earliest of those in the pool's
\* current order.
C15_BestThenEarliest ==
    [][Merges =>
          LET a == EventOf(streambtw_events, paired'[Len(paired')].a)
          IN  \E k \in DOMAIN unmatched_ptv :
                  /\ unmatched_ptv[k].pos = paired'[Len(paired')].b
                  /\ BestEarliest(a, k)]_vars

\* the first A record took the second B record although the first B record
\* matches it too, with a lower score
C15_Witness ==
    /\ Len(paired) >= 1 /\ Len(ptv_events) >= 2
    /\ paired[1].b = 2
    /\ MatchAB(paired[1].a, 1).is_match
    /\ FLess(MatchAB(paired[1].a, 1).score, MatchAB(paired[1].a, 2).score)

----------------------------------------------------------------------------
(* merged or left unmatched                                                *)

\* the step is one iteration of the outer loop
Iterates == pc = "loop" /\ ai' = ai + 1

\* some record of the pool, as it stands, matches a
SomeMatch(a) == \E k \in DOMAIN unmatched_ptv : AgainstPool(a, k).is_match

\* C16: an iteration appends its A record to unmatched_streambtw exactly
\* when no record of the pool as it stands matches it; when some record
\* matches, whatever its score, the A record is merged and the pool loses
\* exactly one record.
C16_UnmatchedIffNoMatch ==
    [][Iterates =>
          LET a == streambtw_events[ai + 1]
          IN  IF SomeMatch(a)
              THEN /\ Len(merged') = Len(merged) + 1
                   /\ paired'[Len(paired')].a = a.pos
                   /\ Len(unmatched_ptv') = Len(unmatched_ptv) - 1
                   /\ unmatched_streambtw' = unmatched_streambtw
              ELSE /\ unmatched_streambtw' = Append(unmatched_streambtw, a)
                   /\ merged' = merged
                   /\ unmatched_ptv' = unmatched_ptv]_vars

\* one A record was merged on a match of score 0.5, below the threshold of
\* line 75, and another one was left unmatched with records in the pool
C16_Witness ==
    /\ pc = "loop"
    /\ \E x \in DOMAIN merged : merged[x].match_confidence = Frac(1, 2)
    /\ unmatched_streambtw # <<>>
    /\ unmatched_ptv # <<>>

----------------------------------------------------------------------------
(* the priority of the separators                                          *)

\* the tokens from the highest priority to the lowest
Priority ==
    << <<" ","v","s","."," ">>, <<" ","v","s"," ">>,
       <<" ","a","t"," ">>, <<" ","v"," ">> >>

\* the token splits the lower-cased title into exactly two parts
SplitsInTwo(title, sep) == Len(split(lower(title), sep)) = 2

\* the pair of normalized, stripped parts of the split at the token
SplitAt(title, sep) ==
    LET parts == split(lower(title), sep)
    IN  [parsed |-> TRUE,
         team1 |-> normalize_team_name(strip(parts[1])),
         team2 |-> normalize_team_name(strip(parts[2]))]

----------------------------------------------------------------------------
(* the lists given and the lists returned                                  *)

\* C18: no step of merge_events changes one of the two lists it was given:
\* they keep their length, their order and their records; the pop shortens
\* the pool only.
C18_InputsUntouched ==
    [][/\ streambtw_events' = streambtw_events
       /\ ptv_events' = ptv_events]_vars

\* a call has returned with a pool shorter than the list of B records
C18_Witness ==
    /\ pc = "caller" /\ run >= 1
    /\ Len(returned[3]) < Len(ptv_events)
    /\ Len(returned[1]) + Len(returned[3]) = Len(ptv_events)

\* the place of a record in a list
PlaceIn(events, e) == CHOOSE p \in DOMAIN events : events[p] = e

\* sub holds records of events, each once, in the order events has them
InOrderOf(sub, events) ==
    /\ \A x \in DOMAIN sub : sub[x] \in Range(events)
    /\ \A x, y \in DOMAIN sub :
          x < y => PlaceIn(events, sub[x]) < PlaceIn(events, sub[y])

\* C19: the merged events stand in the order of their A records, and
\* unmatched_streambtw and unmatched_ptv hold records of the list they come
\* from in the order that list has them.
C19_OrderKept ==
    /\ \A x, y \in DOMAIN paired : x < y => paired[x].a < paired[y].a
    /\ \A x \in DOMAIN paired :
          merged[x].title = EventOf(streambtw_events, paired[x].a).title
    /\ InOrderOf(unmatched_streambtw, streambtw_events)
    /\ InOrderOf(unmatched_ptv, ptv_events)

\* two merged events whose B records stand in the other order
C19_Witness ==
    /\ pc = "caller" /\ run >= 1
    /\ Len(paired) = 2
    /\ paired[1].a = 1 /\ paired[1].b = 2
    /\ paired[2].a = 2 /\ paired[2].b = 1

\* C20: at return no record of unmatched_streambtw matches a record of
\* unmatched_ptv.
C20_NothingLeftToPair ==
    (pc = "caller" /\ run >= 1) =>
        \A a \in Range(returned[2]), b \in Range(returned[3]) :
            ~title_match[a.title, b.title].is_match

\* records are left on both sides, two of them alike enough for a score
\* above 0 and yet no match
C20_Witness ==
    /\ pc = "caller" /\ run >= 1
    /\ \E a \in Range(returned[2]), b \in Range(returned[3]) :
          FLess(ZeroScore, title_match[a.title, b.title].score)
    /\ returned[1] # <<>>

----------------------------------------------------------------------------
(* the retries of fetch_iframe_with_retry                                  *)

\* the request of an attempt ended the call
Final(outcome) == outcome \in {"200", "403"}

\* what holds of a call at every moment: no more requests than max_retries,
\* request_count one above its value at entry, success_count at most one
\* above
WithinCall ==
    calls >= 1 =>
        /\ Len(seen) <= max_retries
        /\ request_count = entry.request_count + 1
        /\ success_count \in {entry.success_count, entry.success_count + 1}

\* what holds of a call that has returned: only its last request can be a
\* 200 or a 403; after a 200 the text is returned and success_count is one
\* higher; after a 403 None is returned; otherwise all max_retries requests
\* were made and None is returned
AtReturn ==
    (fpc = "caller" /\ calls >= 1) =>
        LET n == Len(seen)
        IN  /\ \A k \in 1..(n - 1) : ~Final(seen[k])
            /\ (n >= 1 /\ seen[n] = "200") =>
                   /\ fresult = "text"
                   /\ success_count = entry.success_count + 1
            /\ (n >= 1 /\ seen[n] = "403") => fresult = "None"
            /\ (n = 0 \/ ~Final(seen[n])) =>
                   /\ n = max_retries
                   /\ fresult = "None"
                   /\ success_count = entry.success_count

\* C21: every call of fetch_iframe_with_retry ends, after at most
\* max_retries requests: with the response text at the first 200, with None
\* at once on a 403, with None after max_retries requests that gave a 429,
\* another status, a timeout or a request error; it raises request_count by
\* exactly one and success_count by at most one.
C21_EndsWithinRetries ==
    /\ [](WithinCall /\ AtReturn)
    /\ (fpc = "loop") ~> (fpc = "caller")

\* a later call got its 200 at the last attempt allowed, after a 429 and a
\* timeout, the call before having failed
C21_Witness ==
    /\ fpc = "caller" /\ calls = 2
    /\ max_retries = 3
    /\ seen = <<"429", "Timeout", "200">>
    /\ fresult = "text"
    /\ entry.failure_count > 0 /\ entry.success_count = 0
    /\ waits = 5

============================================================================
